---- MODULE Spec2Model ----
(***************************************************************************)
(* A model of ipyfilite's IpyfiliteManager (src/ipyfilite/_manager.py):    *)
(* the session token, the upload-widget registry, the BroadcastChannel     *)
(* subscription and the _on_file_upload handler, together with the part of *)
(* the Emscripten file system (directories, WORKERFS mounts) and of        *)
(* pathlib that the handler drives.                                        *)
(*                                                                         *)
(* Python values are modelled as follows.  A str is a sequence of          *)
(* one-character strings, so "" is <<>>; a list is a sequence; None is the *)
(* record None and any other value v of an optional attribute is Some(v).  *)
(***************************************************************************)
EXTENDS Integers, Sequences, FiniteSets, TLC

\* ------------------------------------------------------------------ bounds
\* Number of upload events the channel delivers in one behaviour of Spec.
MaxEvents == 2
\* Number of arbitrary messages it delivers in one behaviour of ChannelSpec.
MaxMessages == 1
\* Number of the manager's own upload events it delivers in one behaviour of
\* OwnSpec.
MaxUploads == 3

\* ------------------------------------------------------- Python-like values
None == [tag |-> "None"]
Some(v) == [tag |-> "Some", v |-> v]

\* A test of presence: every value but None passes.
Present(x) == x # None

\* Python truthiness of an attribute value: None, "" and [] are falsy.
Truthy(x) == x # None /\ x.v # <<>>

\* ------------------------------------------------------------------ inputs
\* uuid.uuid4() values, and str() of each of them (one hex digit here).
Sessions == {1, 2}
HexDigit == <<"1", "2">>
Str(u) == <<HexDigit[u]>>

\* Widget objects and their _model_id; w1 and w2 carry the same identity.
Widgets == {"w1", "w2", "w3"}
ModelIdOf(w) == IF w = "w3" THEN <<"n">> ELSE <<"m">>

\* Browser File objects.
File1 == [name |-> <<"a">>, type |-> "text/plain", size |-> 1, lastModified |-> 10]
File2 == [name |-> <<"b">>, type |-> "image/png", size |-> 2, lastModified |-> 20]

\* Upload events: messages of the shape the front end posts, with all four
\* attributes set.  Correlation ids: a plain name, an absolute path, a
\* nested path.
UploadFiles == {<<File2>>, <<File1, File2>>}
UploadUuids == {<<"a">>, <<"/", "a">>, <<"a", "/", "a">>}
UploadEvents ==
    {[data |-> Some([files |-> Some(f), uuid |-> Some(u),
                     session |-> Some(Str(s)), widget |-> Some(ModelIdOf(w))])] :
        f \in UploadFiles, u \in UploadUuids, s \in Sessions, w \in Widgets}

\* Channel events: whatever a sender on the shared channel may post.  Every
\* attribute may be missing (None) or empty, and event.data may be missing.
FilesValues == {None, Some(<<>>), Some(<<File1, File2>>)}
UuidValues == {None, Some(<<>>), Some(<<"a">>), Some(<<"/", "a">>)}
SessionValues == {None, Some(<<>>)} \cup {Some(Str(u)) : u \in Sessions}
WidgetValues == {None, Some(<<>>)} \cup {Some(ModelIdOf(w)) : w \in Widgets}
DataObjects == [files : FilesValues, uuid : UuidValues,
                session : SessionValues, widget : WidgetValues]
ChannelEvents == {[data |-> None]} \cup {[data |-> Some(d)] : d \in DataObjects}

\* Own events: upload events that carry the token of the manager, one file
\* and a plain or a nested correlation id.
OwnUuids == {<<"a">>, <<"a", "/", "a">>}
OwnEvents ==
    {[data |-> Some([files |-> Some(<<File2>>), uuid |-> Some(u),
                     session |-> Some(Str(1)), widget |-> Some(ModelIdOf(w))])] :
        u \in OwnUuids, w \in Widgets}

\* Loose events: events that pass for upload events, but whose file list
\* holds objects that are not Files: a Blob (type and size, no name), and a
\* plain object with a name only.
Blob1 == [type |-> "text/plain", size |-> 1]
Named == [name |-> <<"a">>]
LooseFiles == {<<File1>>, <<Blob1>>, <<File1, Named>>}
LooseEvents ==
    {[data |-> Some([files |-> Some(f), uuid |-> Some(u),
                     session |-> Some(Str(s)), widget |-> Some(ModelIdOf(w))])] :
        f \in LooseFiles, u \in UploadUuids, s \in Sessions, w \in Widgets}

\* ------------------------------------------------------------- pathlib.Path
\* A pure path: whether it is absolute, and its parts (each a str).
\* Split a str at "/" and drop the empty parts, as PurePosixPath parses it.
RECURSIVE SplitParts(_, _)
SplitParts(s, cur) ==
    IF s = <<>> THEN (IF cur = <<>> THEN <<>> ELSE <<cur>>)
    ELSE IF Head(s) = "/"
         THEN (IF cur = <<>> THEN <<>> ELSE <<cur>>) \o SplitParts(Tail(s), <<>>)
         ELSE SplitParts(Tail(s), Append(cur, Head(s)))

\* Path(s)
PathOf(s) == [abs |-> (s # <<>> /\ Head(s) = "/"), parts |-> SplitParts(s, <<>>)]

\* p / s: an absolute right operand replaces the left one.
JoinPath(p, s) ==
    LET q == PathOf(s)
    IN  IF q.abs THEN q ELSE [abs |-> p.abs, parts |-> p.parts \o q.parts]

\* str(p)
RECURSIVE JoinParts(_)
JoinParts(parts) ==
    IF parts = <<>> THEN <<>>
    ELSE IF Len(parts) = 1 THEN Head(parts)
    ELSE Head(parts) \o <<"/">> \o JoinParts(Tail(parts))
StrPath(p) ==
    IF p.parts = <<>> THEN (IF p.abs THEN <<"/">> ELSE <<".">>)
    ELSE (IF p.abs THEN <<"/">> ELSE <<>>) \o JoinParts(p.parts)

\* p.parent
Parent(p) ==
    IF p.parts = <<>> THEN p
    ELSE [abs |-> p.abs, parts |-> SubSeq(p.parts, 1, Len(p.parts) - 1)]

\* "/uploads"
UploadsRoot == <<"/", "u", "p", "l", "o", "a", "d", "s">>

\* upload_path = Path("/uploads") / event.data.uuid
UploadPath(uuid) == JoinPath(PathOf(UploadsRoot), uuid)

\* ------------------------------------------- the Emscripten file system
\* fs.dirs: the directories that exist, each the parts of its absolute path;
\* fs.mounts: the WORKERFS mounts, each a mount point and the File objects
\* mounted there (one read-only file per File, named by its name).
IsPrefix(a, b) == Len(a) <= Len(b) /\ SubSeq(b, 1, Len(a)) = a

IsFile(fs, parts) ==
    \E m \in fs.mounts : \E i \in 1..Len(m.files) :
        parts = m.point \o PathOf(m.files[i].name).parts
IsDir(fs, parts) == parts \in fs.dirs
Exists(fs, parts) == IsDir(fs, parts) \/ IsFile(fs, parts)
\* The directory lies in a WORKERFS mount, which refuses mknod.
InMount(fs, parts) == \E m \in fs.mounts : IsPrefix(m.point, parts)

\* The file system of a fresh kernel: the root directory, nothing mounted.
EmptyFS == [dirs |-> {<<>>}, mounts |-> {}]

\* os.mkdir(p): the errno FS.mkdir ends with, as the exception Python raises.
OsMkdir(fs, p) ==
    LET par == Parent(p).parts
    IN  IF p.parts = <<>> \/ Exists(fs, p.parts)
            THEN [err |-> "FileExistsError", fs |-> fs]
        ELSE IF \E k \in 0..Len(par) : IsFile(fs, SubSeq(par, 1, k))
            THEN [err |-> "NotADirectoryError", fs |-> fs]
        ELSE IF ~IsDir(fs, par)
            THEN [err |-> "FileNotFoundError", fs |-> fs]
        ELSE IF InMount(fs, par)
            THEN [err |-> "PermissionError", fs |-> fs]
        ELSE [err |-> "", fs |-> [fs EXCEPT !.dirs = @ \cup {p.parts}]]

\* Path.mkdir(parents=..., exist_ok=...), as pathlib implements it.
RECURSIVE PathMkdir(_, _, _, _)
PathMkdir(fs, p, parents, exist_ok) ==
    LET r == OsMkdir(fs, p)
    IN  IF r.err = "" THEN r
        ELSE IF r.err = "FileNotFoundError"
            THEN IF ~parents \/ Parent(p) = p THEN r
                 ELSE LET q == PathMkdir(fs, Parent(p), TRUE, TRUE)
                      IN  IF q.err # "" THEN q
                          ELSE PathMkdir(q.fs, p, FALSE, exist_ok)
        ELSE IF ~exist_ok \/ ~IsDir(fs, p.parts) THEN r
        ELSE [err |-> "", fs |-> fs]

\* A mkdir that tolerates an existing directory.
MkdirUploadExistOk(fs, p) == PathMkdir(fs, p, TRUE, TRUE)

\* upload_path.mkdir(parents=True, exist_ok=False)
MkdirUpload(fs, p) == PathMkdir(fs, p, TRUE, FALSE)

\* A mount that takes the place of the mounts made before.
FSMountInPlace(fs, files, p) ==
    [err |-> "",
     fs |-> [fs EXCEPT !.mounts = {[point |-> p.parts, files |-> files]}]]

\* pyodide_js.FS.mount(WORKERFS, {files: files}, str(upload_path)).
\* WORKERFS.mount makes a node for each file from its name, and throws on
\* an object that has none.
FSMount(fs, files, p) ==
    IF ~IsDir(fs, p.parts) THEN [err |-> "OSError", fs |-> fs]
    ELSE IF \E m \in fs.mounts : m.point = p.parts
        THEN [err |-> "OSError", fs |-> fs]
    ELSE IF \E i \in 1..Len(files) : "name" \notin DOMAIN files[i]
        THEN [err |-> "JsException", fs |-> fs]
    ELSE [err |-> "",
          fs |-> [fs EXCEPT !.mounts = @ \cup {[point |-> p.parts, files |-> files]}]]

\* --------------------------------------------------------- the registry
\* self._upload_widgets, a dict: a set of <<key, value>> items.
EmptyDict == {}
DictKeys(d) == {it[1] : it \in d}
\* k in d, for a key k that may be None (no key is None)
DictHas(d, k) == \E it \in d : Some(it[1]) = k
\* d[k], given k in d
DictGet(d, k) == (CHOOSE it \in d : Some(it[1]) = k)[2]
\* An insertion that keeps the item already stored under the key.
DictSetKeepOld(d, k, v) == d \cup {<<k, v>>}

\* d[k] = v
DictSet(d, k, v) == {it \in d : it[1] # k} \cup {<<k, v>>}
\* A removal that removes nothing.
DictPopKeep(d, k) == [err |-> "", d |-> d]

\* d.pop(k), without the default: raises KeyError on a missing key.
DictPopNoDefault(d, k) ==
    IF k \in DictKeys(d) THEN [err |-> "", d |-> {it \in d : it[1] # k}]
    ELSE [err |-> "KeyError", d |-> d]

\* d.pop(k, None): never raises
DictPop(d, k) == [err |-> "", d |-> {it \in d : it[1] # k}]

\* Lines 94-98 read these attributes of every file.
HasAttrs(file) == {"name", "type", "size", "lastModified"} \subseteq DOMAIN file

\* The Bunch records of lines 93-102, in the order of the file list.
Records(upload_path, files) ==
    [i \in 1..Len(files) |->
        [name |-> files[i].name,
         type |-> files[i].type,
         size |-> files[i].size,
         last_modified |-> files[i].lastModified,
         path |-> StrPath(JoinPath(upload_path, files[i].name))]]

\* ------------------------------------------------------ IpyfiliteManager
VARIABLES
    bridges,         \* js, pyodide and pyodide_js can be imported
    session,         \* self._session
    upload_widgets,  \* self._upload_widgets
    onmessage,       \* self._channel.onmessage, "unset" without a channel
    fs,              \* the kernel's file system
    value,           \* value[w]: the value trait of widget object w
    cls_instance,    \* IpyfiliteManager._instance: the singleton, by number
    created,         \* number of IpyfiliteManager objects constructed
    ip,              \* get_ipython(): "none", or whether it has the trait
    last,            \* the operation that ran last, its argument and its exit
    prev,            \* the manager's state before that operation
    delivered,       \* number of messages delivered so far
    used,            \* correlation ids of the events that passed the guards
    latest,          \* latest[k]: the widget registered last under key k, or
                     \* "never", or "unregistered" once it was unregistered
    ever,            \* the widget objects register_upload was called with
    episode,         \* the first register(w), then unregister(w), then an
                     \* event for w's identity, with the state before them
    born,            \* the token the first construction generated
    collisions,      \* number of events that ended in FileExistsError
    returned         \* the objects instance() has returned, by number

vars == <<bridges, session, upload_widgets, onmessage, fs, value,
          cls_instance, created, ip,
          last, prev, delivered, used, latest, ever, episode, born,
          collisions, returned>>

\* The manager's state as one record, for the handler's pure part.
State == [session |-> session, upload_widgets |-> upload_widgets,
          fs |-> fs, value |-> value]

\* How an operation ended.
Returned(why) == [kind |-> "return", detail |-> why]
Raised(err) == [kind |-> "raise", detail |-> err]
Completed == [kind |-> "end", detail |-> ""]

\* A constructor that subscribes without looking at the imports.
SubscriptionAlways(imports_ok) == "_on_file_upload"

\* Lines 19-30: the channel is opened, and the handler subscribed, only when
\* the three imports succeed.
Subscription(imports_ok) == IF imports_ok THEN "_on_file_upload" ELSE "unset"

\* Line 16: uuid4() gives every constructed manager a token of its own; n
\* managers were constructed before.
Uuid4(n) == n + 1

\* An accessor that constructs a manager on every call.
SingletonAlwaysNew(cur, n) == [inst |-> Some(n + 1), created |-> n + 1, new |-> TRUE]

\* Line 40: SingletonConfigurable.instance() constructs the object on the
\* first call only, keeps it in cls._instance and returns it ever after.
Singleton(cur, n) ==
    IF cur = None THEN [inst |-> Some(n + 1), created |-> n + 1, new |-> TRUE]
    ELSE [inst |-> cur, created |-> n, new |-> FALSE]

\* Lines 43-48: the manager becomes a trait of the IPython shell, once.
AddTraits(shell) == IF shell = "no trait" THEN "has trait" ELSE shell

\* Lines 52-53.
RegisterUpload(st, w) ==
    [st |-> [st EXCEPT !.upload_widgets = DictSet(@, ModelIdOf(w), w)],
     exit |-> Completed]

\* Lines 55-56.
UnregisterUpload(st, w) ==
    LET r == DictPop(st.upload_widgets, ModelIdOf(w))
    IN  [st |-> [st EXCEPT !.upload_widgets = r.d],
         exit |-> IF r.err = "" THEN Completed ELSE Raised(r.err)]

\* A guard that forgets to test event.data.files.
FieldsPresentNoFiles(e) ==
    /\ e.data # None
    /\ Truthy(e.data.v.uuid)
    /\ Truthy(e.data.v.session)
    /\ Truthy(e.data.v.widget)

\* Lines 63-69: the condition under which the handler goes on.
FieldsPresent(e) ==
    /\ e.data # None
    /\ Truthy(e.data.v.files)
    /\ Truthy(e.data.v.uuid)
    /\ Truthy(e.data.v.session)
    /\ Truthy(e.data.v.widget)

\* A handler that trusts every session.
SessionMatchesAny(st, d) == TRUE

\* Line 72: event.data.session == str(self.session)
SessionMatches(st, d) == d.session = Some(Str(st.session))

\* A handler that does not look the widget up before acting.
WidgetRegisteredAny(st, d) == TRUE

\* Line 75: event.data.widget in self._upload_widgets
WidgetRegistered(st, d) == DictHas(st.upload_widgets, d.widget)

\* An assignment that reaches every widget object in the registry.
SetValueOfAll(st, d, records) ==
    [st EXCEPT !.value = [w \in Widgets |->
        IF w \in {it[2] : it \in st.upload_widgets} THEN records ELSE @[w]]]

\* Lines 91-103: set_trait("value", ...) on the registered widget.
SetValue(st, d, records) ==
    [st EXCEPT !.value[DictGet(st.upload_widgets, d.widget)] = records]

\* Lines 78-103, for an event that passed the guards.  Python raises
\* TypeError on Path / None and on iterating None, KeyError on a missing key,
\* AttributeError on a file without one of the attributes read; FS.mount
\* takes a missing file list as an empty one.
Upload(st, d) ==
    LET upload_path == UploadPath(IF d.uuid = None THEN <<>> ELSE d.uuid.v)
        files == IF d.files = None THEN <<>> ELSE d.files.v
        mk == MkdirUpload(st.fs, upload_path)
        mt == FSMount(mk.fs, files, upload_path)
    IN  IF d.uuid = None
            THEN [st |-> st, exit |-> Raised("TypeError")]
        ELSE IF mk.err # ""
            THEN [st |-> [st EXCEPT !.fs = mk.fs], exit |-> Raised(mk.err)]
        ELSE IF mt.err # ""
            THEN [st |-> [st EXCEPT !.fs = mt.fs], exit |-> Raised(mt.err)]
        ELSE IF ~DictHas(st.upload_widgets, d.widget)
            THEN [st |-> [st EXCEPT !.fs = mt.fs], exit |-> Raised("KeyError")]
        ELSE IF d.files = None
            THEN [st |-> [st EXCEPT !.fs = mt.fs], exit |-> Raised("TypeError")]
        ELSE IF \E i \in 1..Len(files) : ~HasAttrs(files[i])
            THEN [st |-> [st EXCEPT !.fs = mt.fs],
                  exit |-> Raised("AttributeError")]
        ELSE [st |-> SetValue([st EXCEPT !.fs = mt.fs], d,
                              Records(upload_path, files)),
              exit |-> Completed]

\* Lines 58-103: _on_file_upload(event).  The imports of lines 59-61 fail
\* where the host bridges are missing.
OnFileUpload(st, e, imports_ok) ==
    IF ~imports_ok THEN [st |-> st, exit |-> Raised("ImportError")]
    ELSE IF ~FieldsPresent(e) THEN [st |-> st, exit |-> Returned("fields")]
    ELSE IF ~SessionMatches(st, e.data.v)
        THEN [st |-> st, exit |-> Returned("session")]
    ELSE IF ~WidgetRegistered(st, e.data.v)
        THEN [st |-> st, exit |-> Returned("widget")]
    ELSE Upload(st, e.data.v)

\* ---------------------------------------------------------------- actions
NoWidget == "-"
NoEvent == [data |-> None]
NoEpisode == [phase |-> 0, widget |-> NoWidget]
Keys == {ModelIdOf(w) : w \in Widgets}

Install(st) ==
    /\ session' = st.session
    /\ upload_widgets' = st.upload_widgets
    /\ fs' = st.fs
    /\ value' = st.value

\* The first IpyfiliteManager.instance(): a manager with a fresh token, an
\* empty registry, and the channel subscription if the host bridges are
\* there; it is the singleton, and a trait of the IPython shell if there is
\* one.
Init ==
    /\ bridges \in BOOLEAN
    /\ cls_instance = Singleton(None, 0).inst
    /\ created = Singleton(None, 0).created
    /\ ip \in {"none", AddTraits("no trait")}
    /\ returned = {cls_instance.v}
    /\ session = Uuid4(0)
    /\ born = session
    /\ upload_widgets = EmptyDict
    /\ onmessage = Subscription(bridges)
    /\ fs = EmptyFS
    /\ value = [w \in Widgets |-> <<>>]
    /\ last = [op |-> "__init__", widget |-> NoWidget, event |-> NoEvent,
               fresh |-> FALSE, exit |-> Completed]
    /\ prev = State
    /\ delivered = 0
    /\ used = {}
    /\ latest = [k \in Keys |-> "never"]
    /\ ever = {}
    /\ episode = NoEpisode
    /\ collisions = 0

Register(w) ==
    LET r == RegisterUpload(State, w)
    IN  /\ Install(r.st)
        /\ last' = [op |-> "register_upload", widget |-> w, event |-> NoEvent,
                    fresh |-> FALSE, exit |-> r.exit]
        /\ prev' = State
        /\ latest' = [latest EXCEPT ![ModelIdOf(w)] = w]
        /\ ever' = ever \cup {w}
        /\ episode' = IF w \notin ever
                      THEN [phase |-> 1, widget |-> w, base |-> State]
                      ELSE NoEpisode
        /\ UNCHANGED <<bridges, onmessage, delivered, used, cls_instance,
                       created, ip, born, collisions, returned>>

Unregister(w) ==
    LET r == UnregisterUpload(State, w)
    IN  /\ Install(r.st)
        /\ last' = [op |-> "unregister_upload", widget |-> w, event |-> NoEvent,
                    fresh |-> FALSE, exit |-> r.exit]
        /\ prev' = State
        /\ latest' = [latest EXCEPT ![ModelIdOf(w)] =
                          IF @ = "never" THEN "never" ELSE "unregistered"]
        /\ episode' = IF episode.phase = 1 /\ episode.widget = w
                      THEN [episode EXCEPT !.phase = 2]
                      ELSE NoEpisode
        /\ UNCHANGED <<bridges, onmessage, delivered, used, ever, cls_instance,
                       created, ip, born, collisions, returned>>

\* The channel hands a message to its onmessage handler.
Handle(e) ==
    /\ onmessage = "_on_file_upload"
    /\ LET r == OnFileUpload(State, e, bridges)
           passed == /\ FieldsPresent(e)
                     /\ SessionMatches(State, e.data.v)
                     /\ WidgetRegistered(State, e.data.v)
       IN  /\ Install(r.st)
           /\ last' = [op |-> "_on_file_upload", widget |-> NoWidget,
                       event |-> e,
                       fresh |-> (passed /\ e.data.v.uuid.v \notin used),
                       exit |-> r.exit]
           /\ used' = IF passed THEN used \cup {e.data.v.uuid.v} ELSE used
           /\ collisions' = IF r.exit = Raised("FileExistsError")
                             THEN collisions + 1 ELSE collisions
    /\ prev' = State
    /\ delivered' = delivered + 1
    /\ episode' = IF /\ episode.phase = 2
                     /\ e.data # None
                     /\ e.data.v.widget = Some(ModelIdOf(episode.widget))
                  THEN [episode EXCEPT !.phase = 3]
                  ELSE NoEpisode
    /\ UNCHANGED <<bridges, onmessage, latest, ever, cls_instance, created, ip,
                   born, returned>>

\* Lines 36-50: IpyfiliteManager.instance().  A newly constructed manager
\* would have its own token, an empty registry and its own subscription.
Instance ==
    LET r == Singleton(cls_instance, created)
    IN  /\ cls_instance' = r.inst
        /\ created' = r.created
        /\ returned' = returned \cup {r.inst.v}
        /\ ip' = AddTraits(ip)
        /\ IF r.new
           THEN /\ session' = Uuid4(created)
                /\ upload_widgets' = EmptyDict
                /\ onmessage' = Subscription(bridges)
           ELSE UNCHANGED <<session, upload_widgets, onmessage>>
        /\ last' = [op |-> "instance", widget |-> NoWidget, event |-> NoEvent,
                    fresh |-> FALSE, exit |-> Completed]
        /\ prev' = State
        /\ episode' = IF episode.phase = 3 THEN NoEpisode ELSE episode
        /\ UNCHANGED <<bridges, fs, value, delivered, used, latest, ever,
                       born, collisions>>

\* An upload event arrives.
Deliver(e) == delivered < MaxEvents /\ Handle(e)

\* Any message arrives.
DeliverAny(e) == delivered < MaxMessages /\ Handle(e)

Next ==
    \/ Instance
    \/ \E w \in Widgets : Register(w)
    \/ \E w \in Widgets : Unregister(w)
    \/ \E e \in UploadEvents : Deliver(e)

Spec == Init /\ [][Next]_vars

ChannelNext ==
    \/ Instance
    \/ \E w \in Widgets : Register(w)
    \/ \E w \in Widgets : Unregister(w)
    \/ \E e \in ChannelEvents : DeliverAny(e)

ChannelSpec == Init /\ [][ChannelNext]_vars

\* One of the manager's own events arrives.
DeliverOwn(e) == delivered < MaxUploads /\ Handle(e)

OwnNext ==
    \/ Instance
    \/ \E w \in Widgets : Register(w)
    \/ \E w \in Widgets : Unregister(w)
    \/ \E e \in OwnEvents : DeliverOwn(e)

OwnSpec == Init /\ [][OwnNext]_vars

\* A loose event arrives.
DeliverLoose(e) == delivered < MaxMessages /\ Handle(e)

LooseNext ==
    \/ Instance
    \/ \E w \in Widgets : Register(w)
    \/ \E w \in Widgets : Unregister(w)
    \/ \E e \in LooseEvents : DeliverLoose(e)

LooseSpec == Init /\ [][LooseNext]_vars

\* ================================================================ claims
Handled == last.op = "_on_file_upload"
Data == last.event.data.v
NoEffect == State = prev
\* The four attributes are set, and the session is the manager's own.
WellFormed ==
    /\ last.event.data # None
    /\ Truthy(Data.files) /\ Truthy(Data.uuid)
    /\ Truthy(Data.session) /\ Truthy(Data.widget)
OwnSession == Data.session = Some(Str(prev.session))
TargetRegistered == \E it \in prev.upload_widgets : Some(it[1]) = Data.widget

\* C1: an event whose session field is not the string of the manager's own
\* token is dropped by a silent return and changes nothing: registry, file
\* system (directories and mounts) and every widget value stay as they were,
\* whatever the other fields are and whether or not the widget is registered.
C1_ForeignSessionNoEffect ==
    (Handled /\ last.event.data # None /\ ~OwnSession)
        => (last.exit.kind = "return" /\ NoEffect)

\* C1 witness: a foreign session on an otherwise valid event for a registered
\* widget, dropped at the session guard.
C1_Witness ==
    /\ Handled /\ WellFormed /\ ~OwnSession /\ TargetRegistered
    /\ last.exit = Returned("session")

\* C2: an event that lacks files, uuid, session or widget (or all of
\* event.data) makes the handler return silently at the first guard, and
\* registry, file system and widget values stay as they were.
C2_MissingFieldNoEffect ==
    (Handled /\ (\/ last.event.data = None
                 \/ Data.files = None \/ Data.uuid = None
                 \/ Data.session = None \/ Data.widget = None))
        => (last.exit = Returned("fields") /\ NoEffect)

\* C2 witness: only the file list is missing; the session is the manager's
\* own and the widget is registered.
C2_Witness ==
    /\ Handled /\ last.event.data # None
    /\ Data.files = None /\ Truthy(Data.uuid)
    /\ OwnSession /\ TargetRegistered
    /\ last.exit = Returned("fields")

\* C3: an event whose widget field is not a key of the registry when it is
\* handled is dropped by a silent return and changes nothing.
C3_UnknownWidgetNoEffect ==
    (Handled /\ last.event.data # None /\ ~TargetRegistered)
        => (last.exit.kind = "return" /\ NoEffect)

\* C3 witness: a valid event with the manager's session names a widget that
\* is not registered while another widget is, and is dropped at the lookup.
C3_Witness ==
    /\ Handled /\ WellFormed /\ OwnSession /\ ~TargetRegistered
    /\ prev.upload_widgets # {}
    /\ last.exit = Returned("widget")

\* The parts of the fixed root /uploads, and of the directory
\* /uploads/<correlation id> of the event handled last.
RootDir == << <<"u", "p", "l", "o", "a", "d", "s">> >>
CidDir == RootDir \o SplitParts(Data.uuid.v, <<>>)
\* An event that passes every guard, and the widget object it is for.
Valid == Handled /\ WellFormed /\ OwnSession /\ TargetRegistered
Target == (CHOOSE it \in prev.upload_widgets : Some(it[1]) = Data.widget)[2]
FrameOfRegistry ==
    fs = prev.fs /\ value = prev.value /\ session = prev.session

\* C4: after a valid event with an unused correlation id and N files, the
\* target widget's value is exactly N records in file-list order, record i
\* with file i's name, type, size and modification time and the path
\* /uploads/<correlation id>/<name>; nothing of the old value remains.
C4_AcceptedEventSetsRecords ==
    (Valid /\ last.fresh) =>
        LET files == Data.files.v
            val == value[Target]
        IN  /\ Len(val) = Len(files)
            /\ \A i \in 1..Len(files) :
                /\ val[i].name = files[i].name
                /\ val[i].type = files[i].type
                /\ val[i].size = files[i].size
                /\ val[i].last_modified = files[i].lastModified
                /\ PathOf(val[i].path) =
                       [abs |-> TRUE, parts |-> CidDir \o <<files[i].name>>]

\* C5: a valid event whose correlation id an earlier valid event carried
\* fails at directory creation with an error that leaves the handler (a
\* FileExistsError where the earlier event's directory is mounted), and it
\* changes nothing: registry, directories, mounts and every widget's value
\* are as the earlier events left them.
C5_ReusedIdFails ==
    (Valid /\ ~last.fresh) =>
        /\ last.exit.kind = "raise"
        /\ last.exit.detail \in
               {"FileExistsError", "NotADirectoryError", "PermissionError"}
        /\ (\E m \in prev.fs.mounts : m.point = UploadPath(Data.uuid.v).parts)
               => last.exit.detail = "FileExistsError"
        /\ NoEffect

\* C5 witness: the second event with the id is for a widget that has had no
\* upload, while another widget holds the records of the first.
C5_Witness ==
    /\ Valid /\ ~last.fresh
    /\ last.exit = Raised("FileExistsError")
    /\ value[Target] = <<>>
    /\ \E w \in Widgets : value[w] # <<>>

\* C6 as stated: after the first register(w) and then unregister(w), an
\* event for w's identity is dropped and leaves the state that handling it
\* without ever registering w would have left.
C6_AsIfNeverRegistered ==
    episode.phase = 3 =>
        /\ last.exit.kind = "return"
        /\ State = OnFileUpload(episode.base, last.event, bridges).st

\* C6 as amended: an event for an identity whose last registry operation was
\* an unregister is dropped silently and changes nothing; after the first
\* register(w) and then unregister(w) the state is the one before them with
\* no entry under w's identity, which is the state of never having
\* registered w provided w's identity was not a key of the registry when w
\* was registered.
C6_UnregisteredDropsEvent ==
    /\ (/\ Handled /\ last.event.data # None
        /\ \E k \in Keys : Data.widget = Some(k) /\ latest[k] = "unregistered")
           => (last.exit.kind = "return" /\ NoEffect)
    /\ episode.phase = 3
           => /\ last.exit.kind = "return"
              /\ upload_widgets = {it \in episode.base.upload_widgets :
                                      it[1] # ModelIdOf(episode.widget)}
              /\ fs = episode.base.fs /\ value = episode.base.value
              /\ session = episode.base.session
    /\ (/\ episode.phase = 3
        /\ ModelIdOf(episode.widget) \notin DictKeys(episode.base.upload_widgets))
           => /\ State = episode.base
              /\ State = OnFileUpload(episode.base, last.event, bridges).st

\* C6 witness: register(w), unregister(w), then an otherwise valid event for
\* w's identity, dropped at the registry lookup.
C6_Witness ==
    /\ episode.phase = 3
    /\ ModelIdOf(episode.widget) \notin DictKeys(episode.base.upload_widgets)
    /\ WellFormed /\ OwnSession
    /\ last.exit = Returned("widget")

\* C7: every directory the handler created lies beneath /uploads, and an
\* event handled to the end has its directory /uploads/<correlation id>
\* created and mounted with its files.
C7_DirectoriesUnderUploads ==
    /\ \A p \in fs.dirs : p = <<>> \/ IsPrefix(RootDir, p)
    /\ (Handled /\ last.exit = Completed) =>
           /\ CidDir \in fs.dirs
           /\ [point |-> CidDir, files |-> Data.files.v] \in fs.mounts

\* C8: the registry holds at most one widget per identity; register(w)
\* stores w under its identity, replacing whatever was stored there and
\* nothing else, so registering w again changes nothing; and an event
\* handled to the end sets the value of the widget object registered last
\* under the event's identity and of no other widget object.
C8_RegisterOverwrites ==
    /\ \A a, b \in upload_widgets : a[1] = b[1] => a = b
    /\ last.op = "register_upload" =>
           LET k == ModelIdOf(last.widget)
           IN  /\ <<k, last.widget>> \in upload_widgets
               /\ \A it \in upload_widgets : it[1] = k => it[2] = last.widget
               /\ {it \in upload_widgets : it[1] # k}
                      = {it \in prev.upload_widgets : it[1] # k}
               /\ <<k, last.widget>> \in prev.upload_widgets
                      => upload_widgets = prev.upload_widgets
               /\ FrameOfRegistry
    /\ (Handled /\ last.exit = Completed) =>
           LET w == latest[Data.widget.v]
           IN  /\ w \in Widgets
               /\ Len(value[w]) = Len(Data.files.v)
               /\ \A i \in 1..Len(value[w]) :
                      value[w][i].name = Data.files.v[i].name
               /\ value[w] # prev.value[w]
               /\ \A x \in Widgets \ {w} : value[x] = prev.value[x]

\* C8 witness: w1 had an upload, then w2 was registered under the same
\* identity, and an event for that identity has set w2's value.
C8_Witness ==
    /\ Handled /\ last.exit = Completed
    /\ Data.widget = Some(ModelIdOf("w2"))
    /\ latest[ModelIdOf("w2")] = "w2"
    /\ value["w1"] # <<>> /\ value["w2"] # <<>>
    /\ value["w1"] = prev.value["w1"]

\* C9: unregister(w) ends without an error; it removes the entry under w's
\* identity if there is one and no other entry, leaves the registry as it
\* was if there is none (so a second unregister is a no-op), and touches
\* nothing else.
C9_UnregisterNeverFails ==
    last.op = "unregister_upload" =>
        LET k == ModelIdOf(last.widget)
        IN  /\ last.exit = Completed
            /\ upload_widgets = {it \in prev.upload_widgets : it[1] # k}
            /\ k \notin DictKeys(prev.upload_widgets)
                   => upload_widgets = prev.upload_widgets
            /\ FrameOfRegistry

\* C9 witness: a second unregister of an identity, absent from a registry
\* that holds another widget.
C9_Witness ==
    /\ last.op = "unregister_upload"
    /\ latest[ModelIdOf(last.widget)] = "unregistered"
    /\ ModelIdOf(last.widget) \notin DictKeys(prev.upload_widgets)
    /\ upload_widgets # {}
    /\ last.exit = Completed

\* C10: without the host bridges nothing is subscribed, so the handler never
\* runs: no message is handled, no directory or mount exists and every
\* widget value is the initial one, while register and unregister update the
\* registry as usual.
C10_DegradedNeverHandles ==
    ~bridges =>
        /\ onmessage = "unset"
        /\ delivered = 0 /\ ~Handled
        /\ fs = EmptyFS
        /\ \A w \in Widgets : value[w] = <<>>
        /\ last.op = "register_upload"
               => <<ModelIdOf(last.widget), last.widget>> \in upload_widgets
        /\ last.op = "unregister_upload"
               => ModelIdOf(last.widget) \notin DictKeys(upload_widgets)

\* C10 witness: a degraded manager that has registered two widgets and
\* unregistered one of them.
C10_Witness ==
    /\ ~bridges
    /\ last.op = "unregister_upload"
    /\ ModelIdOf(last.widget) \in DictKeys(prev.upload_widgets)
    /\ upload_widgets # {}

\* C11: every instance() call returns the one manager the first call
\* constructed, and no operation (instance, register_upload,
\* unregister_upload, the handler) changes that manager's session token: it
\* is the token its construction generated.
C11_OneInstanceOneToken ==
    /\ returned = {1} /\ cls_instance = Some(1) /\ created = 1
    /\ session = born /\ session = prev.session

\* C11 witness: instance() is called again after a widget was registered and
\* an event handled to the end.
C11_Witness ==
    /\ last.op = "instance"
    /\ upload_widgets # {} /\ fs.mounts # {}
    /\ \E w \in Widgets : value[w] # <<>>

\* C12: when the handler has finished for an event, by returning or by
\* raising, either it changed nothing, or all three effects are there: the
\* event's directory is new, the event's files are mounted on it, and the
\* target widget's value is the event's records.
C12_AllOrNothing ==
    Handled =>
        \/ NoEffect
        \/ LET upload_path == UploadPath(Data.uuid.v)
               files == Data.files.v
           IN  /\ upload_path.parts \in fs.dirs \ prev.fs.dirs
               /\ [point |-> upload_path.parts, files |-> files]
                      \in fs.mounts \ prev.fs.mounts
               /\ \A i \in 1..Len(files) : HasAttrs(files[i])
               /\ value[Target] = Records(upload_path, files)

\* The event handled last ended in a directory-creation collision, and the
\* number of collisions before it.
Collision == Handled /\ last.exit = Raised("FileExistsError")
CollisionsBefore == IF Collision THEN collisions - 1 ELSE collisions
\* The event handled last was accepted and fully processed: the handler ran
\* to its end, the event's directory is new and mounted with its files, and
\* the target's value is its records.
FullyProcessed ==
    LET upload_path == UploadPath(Data.uuid.v)
    IN  /\ last.exit = Completed
        /\ upload_path.parts \in fs.dirs \ prev.fs.dirs
        /\ [point |-> upload_path.parts, files |-> Data.files.v]
               \in fs.mounts \ prev.fs.mounts
        /\ value[Target] = Records(upload_path, Data.files.v)

\* C13: an event that ends in a directory-creation collision leaves the
\* registry, the session token and the directory tree as they were, and
\* every valid event with an unused correlation id that is handled after a
\* collision is accepted and fully processed.
C13_CollisionNotFatal ==
    /\ Collision =>
           /\ upload_widgets = prev.upload_widgets
           /\ session = prev.session
           /\ fs = prev.fs
    /\ (CollisionsBefore > 0 /\ Valid /\ last.fresh) => FullyProcessed

\* C14: every valid event (fields present, session matching, widget
\* registered) whose correlation id no earlier handled event carried is
\* accepted: its directory is created and mounted and the target widget's
\* value is updated, whatever other ids were used before, ids with path
\* separators among them.
C14_FreshIdAccepted == (Valid /\ last.fresh) => FullyProcessed

\* C15: an accepted event changes only its target: the value of every other
\* widget, the registry (its keys and the widget objects under them) and
\* the session token are what they were before the event.
C15_OnlyTargetChanges ==
    (Valid /\ last.exit = Completed) =>
        /\ \A w \in Widgets \ {Target} : value[w] = prev.value[w]
        /\ upload_widgets = prev.upload_widgets
        /\ session = prev.session

\* C15 witness: an event is accepted for one widget while another
\* registered widget holds the records of an earlier event, and the
\* target's value did change.
C15_Witness ==
    /\ Valid /\ last.exit = Completed
    /\ value[Target] # prev.value[Target]
    /\ \E it \in upload_widgets : it[2] # Target /\ value[it[2]] # <<>>

\* One of the four attributes of the event handled last is there but empty:
\* an empty file list, or an empty string for uuid, session or widget.
EmptyField ==
    /\ last.event.data # None
    /\ \/ Data.files = Some(<<>>)
       \/ Data.uuid = Some(<<>>)
       \/ Data.session = Some(<<>>)
       \/ Data.widget = Some(<<>>)

\* C16: the guards test truthiness: an event with an empty file list, or an
\* empty string as uuid, session or widget, is dropped by the same silent
\* return as an event without that attribute, and changes nothing; and
\* whenever the handler runs to its end the value it has set is not the
\* empty list.
C16_EmptyFieldDropped ==
    /\ (Handled /\ EmptyField) => (last.exit = Returned("fields") /\ NoEffect)
    /\ (Handled /\ last.exit = Completed) => value[Target] # <<>>

\* C16 witness: the event handled has an empty file list and nothing else
\* wrong: a uuid, the manager's token and the key of a registered widget.
C16_Witness ==
    /\ Handled /\ last.event.data # None
    /\ Data.files = Some(<<>>)
    /\ Data.uuid = Some(<<"a">>)
    /\ OwnSession /\ TargetRegistered

\* C17: directories and mounts only grow: whatever ran last (instance,
\* register, unregister, an accepted, rejected or failed event), every
\* directory and every mount that was there before it is still there; and
\* unregister_upload leaves every widget's value and the file system as
\* they were.
C17_UploadsOnlyGrow ==
    /\ prev.fs.dirs \subseteq fs.dirs
    /\ prev.fs.mounts \subseteq fs.mounts
    /\ last.op = "unregister_upload" => (value = prev.value /\ fs = prev.fs)

\* C17 witness: a widget that holds the records of an accepted event, whose
\* directory is mounted, has just been unregistered.
C17_Witness ==
    /\ last.op = "unregister_upload"
    /\ last.widget \notin {it[2] : it \in upload_widgets}
    /\ value[last.widget] # <<>>
    /\ \E m \in fs.mounts :
           StrPath([abs |-> TRUE, parts |-> m.point \o <<value[last.widget][1].name>>])
               = value[last.widget][1].path
====
